---- MODULE Spec2Model ----
(***************************************************************************)
(* A model of oe2pg, the OpenEdge -> PostgreSQL table synchroniser.        *)
(*                                                                         *)
(* Spec models DataSyncManager (src/src/oe2pg.py) working on one table     *)
(* over several process runs: sync_table, get_sync_strategy,               *)
(* sync_full_table, sync_key_based and the SyncState store.  Every         *)
(* database statement that the code commits is one step, so the states     *)
(* between two commits, where a run can fail or the process can die, are   *)
(* states of the model.                                                    *)
(*                                                                         *)
(* The table has two columns, columns = <<"id", "val">>; "id" is the       *)
(* primary key column when the table has one (hasPk).                      *)
(***************************************************************************)
EXTENDS Integers, Sequences, FiniteSets, Bags, TLC

\* ------------------------------------------------------------- bounds ---
\* Largest primary key value of a source row.
MaxKey == 3
\* Largest number of rows of the source table.
MaxRows == 3
\* self.batch_size of both programs (5000 and 1000 in the code), scaled down.
BatchSize == 2
\* Largest number of rows the destination table holds before the first run.
MaxStale == 1
\* Number of process runs (invocations of sync_table) of one behaviour.
MaxRuns == 3

\* ------------------------------------------------------------- values ---
\* Python None / SQL NULL.
NULL == [t |-> "null"]
\* A value as the source driver hands it over: an integer or a date.
IntV(n) == [t |-> "int", v |-> n]
DateV(d) == [t |-> "date", y |-> 2024, m |-> 1, d |-> d]
\* A Python str; every value the destination stores is NULL or a TextV.
TextV(s) == [t |-> "text", v |-> s]

Digit == <<"0", "1", "2", "3", "4", "5", "6", "7", "8", "9">>

\* str(n) of a natural number: its decimal digits.
RECURSIVE Str(_)
Str(n) == IF n < 10 THEN Digit[n + 1] ELSE Str(n \div 10) \o Digit[(n % 10) + 1]

Pad2(n) == IF n < 10 THEN "0" \o Str(n) ELSE Str(n)

\* date.isoformat(): YYYY-MM-DD.
IsoFormat(value) == Str(value.y) \o "-" \o Pad2(value.m) \o "-" \o Pad2(value.d)

\* str(value) of a non-null value.
PyStr(value) ==
    CASE value.t = "int" -> Str(value.v)
      [] value.t = "date" -> IsoFormat(value)
      [] OTHER -> value.v

\* Python truthiness of a str-or-None: None and "" are false.
Truthy(value) == value # NULL /\ value.v # ""

\* The value transformation of both transfer loops: None stays None, a
\* value with isoformat() becomes its ISO text, anything else str(value).
Transform(value) ==
    IF value = NULL THEN NULL
    ELSE IF value.t = "date" THEN TextV(IsoFormat(value))
    ELSE TextV(PyStr(value))

\* processed_row of one fetched row.
ProcessRow(row) == [key |-> Transform(row.key), val |-> Transform(row.val)]

\* batch_rows of one fetched batch.
ProcessBatch(batch) == [i \in 1..Len(batch) |-> ProcessRow(batch[i])]

\* ------------------------------------------------------ the two tables ---
Keys == 1..MaxKey
SourceValues == {NULL, DateV(5)}
SourceRows == [key : {IntV(k) : k \in Keys}, val : SourceValues]

\* The source table in the order an unordered SELECT returns it.  The key
\* column holds distinct, non-null values.
DistinctKeys(rows) ==
    \A i, j \in 1..Len(rows) : rows[i].key = rows[j].key => i = j
SourceTables ==
    {rows \in UNION {[1..n -> SourceRows] : n \in 0..MaxRows} : DistinctKeys(rows)}

\* Rows the destination may hold before the first run: left there by an
\* earlier load, with a content no transfer of this model produces.
StaleRows == [key : {TextV(Str(k)) : k \in Keys}, val : {TextV("stale")}]

SeqToBag(rows) ==
    LET RECURSIVE Go(_, _)
        Go(i, acc) == IF i > Len(rows) THEN acc
                      ELSE Go(i + 1, acc (+) SetToBag({rows[i]}))
    IN Go(1, EmptyBag)

\* The rows of bag b that are in the set keep.
BagRestrict(b, keep) == [r \in (DOMAIN b) \cap keep |-> b[r]]

\* Number of rows of bag b whose key column is key.
RowsWithKey(b, key) ==
    BagCardinality(BagRestrict(b, {r \in DOMAIN b : r.key = key}))

StaleTables(unique) ==
    {b \in UNION {{SeqToBag(s) : s \in [1..n -> StaleRows]} : n \in 0..MaxStale} :
        unique => \A r \in DOMAIN b : RowsWithKey(b, r.key) = 1}

\* -------------------------------------------------------------- state ---
VARIABLES
    src,            \* the source table PUB.<table>, in scan order
    hasPk,          \* table_info["pk_column"] is not None
    destExists,     \* analytics.<table> exists
    hasUnique,      \* analytics.<table> has a unique constraint on "id"
    dest,           \* the committed rows of analytics.<table>, a bag
    syncState,      \* the table's record of analytics.sync_state, or NULL
    runs,           \* number of runs started; the clock of last_sync_time
    full_sync,      \* self.full_sync of the running process
    pc,             \* where the running sync_table is
    strategy,       \* what get_sync_strategy returned
    last_sync,      \* the local last_sync
    last_key_value, \* the local last_key_value of sync_key_based
    cursor,         \* rows oe_cursor has not yet returned
    rows_synced,    \* the local rows_synced
    last_value,     \* the local last_value
    ret,            \* what the last sync_table call returned, NULL if it died
    run,            \* history of the current (or last) run
    prev,           \* history of the run before it, in short
    srcChanged,     \* history: the source changed since the last run began
    ledger,         \* history of the row counts saved since the last full sync
    ignoreFile,     \* mirror variant: the lines of IGNORE_FILE
    total_rows,     \* mirror variant: total_rows of fetch_and_process_data
    success,        \* mirror variant: results[table] of mirror_all_tables
    mirror,         \* mirror variant: history of the current (or last) run
    program,        \* orchestration: which program runs, "sync" or "mirror"
    connected,      \* orchestration: both connections are open
    ignored_tables, \* orchestration: self.ignored_tables / exclude_tables
    tables,         \* orchestration: the candidate list of the run
    index,          \* orchestration: position of the loop over tables
    results,        \* orchestration: results of mirror_all_tables
    orch,           \* orchestration: history of the current (or last) run
    columns,        \* reconciliation: table_info["columns"]
    destColumns,    \* reconciliation: committed columns of analytics.<table>
    txnColumns,     \* reconciliation: columns added in the open transaction
    missing_columns,\* reconciliation: columns the loop has still to add
    ensured,        \* reconciliation: what ensure_target_table returned
    ddl,            \* reconciliation: history of the current (or last) call
    cursor_semaphore, \* cursor guard: the permits cursor_semaphore has left
    holders,        \* cursor guard: the operations inside `with cursor_semaphore`
    guard           \* cursor guard: history of the current (or last) process

vars == <<src, hasPk, destExists, hasUnique, dest, syncState, runs, full_sync,
          pc, strategy, last_sync, last_key_value, cursor, rows_synced,
          last_value, ret, run, prev, srcChanged, ledger, ignoreFile,
          total_rows, success, mirror, program, connected, ignored_tables,
          tables, index, results, orch, columns, destColumns, txnColumns,
          missing_columns, ensured, ddl, cursor_semaphore, holders, guard>>

tableVars == <<src, hasPk, hasUnique>>
\* The variables only DBMirror (src/oe2pg.py) uses, and those only
\* DataSyncManager (src/src/oe2pg.py) uses.
mirrorOnly == <<ignoreFile, total_rows, success, mirror>>
syncOnly == <<hasPk, hasUnique, syncState, full_sync, strategy, last_sync,
              last_key_value, rows_synced, last_value, ret, run, prev,
              srcChanged, ledger>>
\* The variables only the orchestration model uses, and those only the
\* model of ensure_target_table uses.
orchOnly == <<program, connected, ignored_tables, tables, index, results, orch>>
schemaOnly == <<columns, destColumns, txnColumns, missing_columns, ensured, ddl>>
\* The variables only the model of the cursor guard uses.
cursorOnly == <<cursor_semaphore, holders, guard>>
localVars == <<strategy, last_sync, last_key_value, cursor, rows_synced, last_value>>

\* table_info["pk_column"]
pk_column == IF hasPk THEN TextV("id") ELSE NULL

\* History of a run that has not started.
NoRun ==
    [outcome |-> "none", path |-> "none", truncated |-> FALSE,
     batches |-> 0, upserts |-> 0, fallbacks |-> 0, touched |-> {},
     saved |-> "no", strategy |-> "none", watermark |-> NULL,
     startDest |-> EmptyBag, startState |-> NULL, srcSame |-> FALSE,
     retryFailed |-> FALSE]

\* What is kept of a run's history when the next run begins.
Summary(history) ==
    [outcome |-> history.outcome, path |-> history.path,
     truncated |-> history.truncated, batches |-> history.batches,
     watermark |-> history.watermark, touched |-> history.touched]

\* History of a run of the mirror variant that has not started.
NoMirror ==
    [truncated |-> FALSE, inserted |-> 0, lost |-> 0, startDest |-> EmptyBag,
     srcChanged |-> FALSE, pg_row_count |-> 0]

\* History of an orchestrated run that has not started.
NoOrch ==
    [end |-> "none", raised |-> FALSE, attempted |-> << >>, touched |-> {},
     failed |-> {}, inherited |-> {}, registered |-> {}, late |-> {},
     ignoredTouched |-> {}, edits |-> 0, denied |-> {}, ok |-> {},
     written |-> << >>]

\* History of a call of ensure_target_table that has not started.
NoDdl ==
    [creates |-> 0, adds |-> 0, succeeded |-> {}, startExists |-> FALSE,
     startColumns |-> {}, again |-> FALSE, stale |-> FALSE]

\* The orchestration variables where no orchestrated run is modelled.
OrchUnused ==
    /\ program = "none"
    /\ connected = FALSE
    /\ ignored_tables = {}
    /\ tables = << >>
    /\ index = 0
    /\ results = [t \in {} |-> FALSE]
    /\ orch = NoOrch

\* MAX_CURSORS of the mirror variant.
MAX_CURSORS == 2

\* History of a process whose cursor guard has not been used.
NoGuard == [acquired |-> 0, exits |-> 0, errors |-> 0]

\* The cursor guard where the source operations are one step each.
CursorUnused ==
    /\ cursor_semaphore = MAX_CURSORS
    /\ holders = << >>
    /\ guard = NoGuard

\* The reconciliation variables where ensure_target_table is one step.
SchemaUnused ==
    /\ columns = {}
    /\ destColumns = {}
    /\ txnColumns = {}
    /\ missing_columns = {}
    /\ ensured = "none"
    /\ ddl = NoDdl

Init ==
    /\ src \in SourceTables
    /\ hasPk \in BOOLEAN
    /\ destExists \in BOOLEAN
    /\ hasUnique \in {u \in BOOLEAN : u => (hasPk /\ destExists)}
    /\ dest \in IF destExists THEN StaleTables(hasUnique) ELSE {EmptyBag}
    /\ syncState = NULL
    /\ runs = 0
    /\ full_sync = FALSE
    /\ pc = "idle"
    /\ strategy = "none"
    /\ last_sync = NULL
    /\ last_key_value = NULL
    /\ cursor = << >>
    /\ rows_synced = 0
    /\ last_value = NULL
    /\ ret = NULL
    /\ run = NoRun
    /\ prev = Summary(NoRun)
    /\ srcChanged = FALSE
    /\ ledger = 0
    /\ ignoreFile = << >>
    /\ total_rows = 0
    /\ success = "none"
    /\ mirror = NoMirror
    /\ OrchUnused
    /\ SchemaUnused
    /\ CursorUnused

\* ------------------------------------------------------ SyncState store ---
\* SyncState.get_last_sync: the stored record, or None when there is none
\* and also when the SELECT raises.
GetLastSync == {syncState, NULL}

\* The record update_sync_state upserts (last_sync_time = NOW()).
UpdateSyncState(key_value, sync_method, row_count) ==
    [t |-> "state", last_sync_time |-> runs, last_key_value |-> key_value,
     sync_method |-> sync_method, row_count |-> row_count]

\* ----------------------------------------------------- strategy selector ---
\* Mutant: the primary key is looked at before the prior SyncState.
GetSyncStrategyPkFirst(force_full, state, pk) ==
    IF force_full THEN "full"
    ELSE IF Truthy(pk) THEN "key_based"
    ELSE IF state = NULL THEN "full"
    ELSE "timestamp"

\* Mutant: without primary key column the selector always says "full".
GetSyncStrategyNoStub(force_full, state, pk) ==
    IF force_full THEN "full"
    ELSE IF state = NULL THEN "full"
    ELSE IF Truthy(pk) THEN "key_based"
    ELSE "full"

GetSyncStrategy(force_full, state, pk) ==
    IF force_full THEN "full"
    ELSE IF state = NULL THEN "full"
    ELSE IF Truthy(pk) THEN "key_based"
    ELSE "timestamp"

\* ------------------------------------------------------- cursor helpers ---
Min(a, b) == IF a < b THEN a ELSE b

\* Mutant: fetchmany hands over one row at a time.
FetchManyOne(c) == SubSeq(c, 1, 1)

\* oe_cursor.fetchmany(batch_size) and what it leaves in the cursor.
FetchMany(c) == SubSeq(c, 1, Min(BatchSize, Len(c)))
AfterFetch(c) == SubSeq(c, Min(BatchSize, Len(c)) + 1, Len(c))

\* last_value after the rows of a batch: str() of the last non-null key.
RECURSIVE LastPk(_, _)
LastPk(batch, value) ==
    IF batch = << >> THEN value
    ELSE LastPk(Tail(batch),
                IF Head(batch).key # NULL THEN TextV(PyStr(Head(batch).key))
                ELSE value)

\* The source's reading of the text parameter bound to "id" > ?: the key
\* whose text it is (the comparison is made in the key column's order).
ParseKey(text) == CHOOSE k \in 0..MaxKey : Str(k) = text.v

\* Mutants: WHERE "id" >= ? and WHERE "id" < ?
KeyAfterInclusive(row, watermark) ==
    row.key # NULL /\ row.key.v >= ParseKey(watermark)
KeyAfterFlipped(row, watermark) ==
    row.key # NULL /\ row.key.v < ParseKey(watermark)

\* WHERE "id" > ?
KeyAfter(row, watermark) == row.key # NULL /\ row.key.v > ParseKey(watermark)

\* ORDER BY "id"
RECURSIVE SortByKey(_)
SortByKey(rows) ==
    IF rows = {} THEN << >>
    ELSE LET first == CHOOSE r \in rows : \A q \in rows : r.key.v <= q.key.v
         IN <<first>> \o SortByKey(rows \ {first})

\* SELECT ... FROM PUB.<table> WHERE "id" > ? ORDER BY "id"
KeyQuery(rows, watermark) ==
    SortByKey({rows[i] : i \in {j \in 1..Len(rows) : KeyAfter(rows[j], watermark)}})

\* --------------------------------------------------- destination writes ---
\* INSERT ... ON CONFLICT ("id") DO UPDATE SET "val" = EXCLUDED."val" on a
\* table with a unique constraint on "id".
RECURSIVE Upsert(_, _)
Upsert(table, batch_rows) ==
    IF batch_rows = << >> THEN table
    ELSE LET row == Head(batch_rows)
             conflict == {r \in DOMAIN table : r.key # NULL /\ r.key = row.key}
         IN Upsert(BagRestrict(table, (DOMAIN table) \ conflict) (+) SetToBag({row}),
                   Tail(batch_rows))

\* pk_values = [row[pk_index] for row in batch]
PkValues(batch) == {batch[i].key : i \in 1..Len(batch)}

\* Mutant: the DELETE compares the stored text with the unconverted values.
DeleteByKeysRaw(table, pk_values) ==
    BagRestrict(table, {r \in DOMAIN table : r.key \notin pk_values})

\* DELETE FROM analytics.<table> WHERE "id" IN (pk_values)
DeleteByKeys(table, pk_values) ==
    BagRestrict(table,
        {r \in DOMAIN table :
            ~ \E value \in pk_values :
                value # NULL /\ r.key # NULL /\ r.key.v = PyStr(value)})

\* Mutant: the fallback inserts without deleting.
InsertOnly(table, batch, batch_rows) == table (+) SeqToBag(batch_rows)

\* The fallback of a chunk: the DELETE, then the plain INSERT, one commit.
DeleteThenInsert(table, batch, batch_rows) ==
    DeleteByKeys(table, PkValues(batch)) (+) SeqToBag(batch_rows)

\* ------------------------------------------------------------ sync_table ---
ResetLocals ==
    /\ strategy' = "none"
    /\ last_sync' = NULL
    /\ last_key_value' = NULL
    /\ cursor' = << >>
    /\ rows_synced' = 0
    /\ last_value' = NULL

\* sync_table returns value; history is the run's history at that point.
Return(value, history) ==
    /\ pc' = "idle"
    /\ ret' = value
    /\ run' = history
    /\ full_sync' = FALSE
    /\ ResetLocals

NewRun(force) ==
    [NoRun EXCEPT !.outcome = "running", !.startDest = dest,
                  !.startState = syncState,
                  !.srcSame = (run.outcome # "none" /\ ~ srcChanged)]

\* A process with full_sync = force calls sync_table; ensure_target_table
\* finds the destination table or creates it (all columns TEXT, no
\* constraint) and returns True.
SyncTableBegin(force) ==
    /\ pc = "idle"
    /\ runs < MaxRuns
    /\ runs' = runs + 1
    /\ full_sync' = force
    /\ destExists' = TRUE
    /\ pc' = "select"
    /\ prev' = Summary(run)
    /\ run' = NewRun(force)
    /\ srcChanged' = FALSE
    /\ UNCHANGED <<tableVars, dest, syncState, ret, ledger, localVars>>
    /\ UNCHANGED <<mirrorOnly, orchOnly, schemaOnly, cursorOnly>>

\* ensure_target_table returns False (a statement of it raised): sync_table
\* returns 0.
SyncTableEnsureFails(force) ==
    /\ pc = "idle"
    /\ runs < MaxRuns
    /\ runs' = runs + 1
    /\ prev' = Summary(run)
    /\ ret' = IntV(0)
    /\ run' = [NewRun(force) EXCEPT !.outcome = "error"]
    /\ srcChanged' = FALSE
    /\ UNCHANGED <<tableVars, destExists, dest, syncState, full_sync, pc,
                   ledger, localVars>>
    /\ UNCHANGED <<mirrorOnly, orchOnly, schemaOnly, cursorOnly>>

\* get_sync_strategy and the dispatch of sync_table on its result
\* (sync_timestamp_based only calls sync_full_table).
SelectStrategy ==
    /\ pc = "select"
    /\ \E state \in (IF full_sync THEN {NULL} ELSE GetLastSync) :
          /\ last_sync' = state
          /\ strategy' = GetSyncStrategy(full_sync, state, pk_column)
    /\ pc' = IF strategy' = "key_based" THEN "key" ELSE "full"
    /\ run' = [run EXCEPT !.strategy = strategy']
    /\ UNCHANGED <<tableVars, destExists, dest, syncState, runs, full_sync,
                   last_key_value, cursor, rows_synced, last_value, ret, prev,
                   srcChanged, ledger>>
    /\ UNCHANGED <<mirrorOnly, orchOnly, schemaOnly, cursorOnly>>

\* ------------------------------------------------------- sync_full_table ---
\* Mutant: nothing is truncated.
TruncateNothing(table) == table

\* TRUNCATE TABLE analytics.<table>
Truncate(table) == EmptyBag

\* TRUNCATE, commit, and the SELECT of all rows.
FullBegin ==
    /\ pc = "full"
    /\ dest' = Truncate(dest)
    /\ cursor' = src
    /\ rows_synced' = 0
    /\ last_value' = NULL
    /\ pc' = "full_loop"
    /\ run' = [run EXCEPT !.path = "full", !.truncated = TRUE]
    /\ UNCHANGED <<tableVars, destExists, syncState, runs, full_sync, strategy,
                   last_sync, last_key_value, ret, prev, srcChanged, ledger>>
    /\ UNCHANGED <<mirrorOnly, orchOnly, schemaOnly, cursorOnly>>

\* The TRUNCATE raises: rollback, return 0.
FullBeginFails ==
    /\ pc = "full"
    /\ Return(IntV(0), [run EXCEPT !.path = "full", !.outcome = "error"])
    /\ UNCHANGED <<tableVars, destExists, dest, syncState, runs, prev,
                   srcChanged, ledger>>
    /\ UNCHANGED <<mirrorOnly, orchOnly, schemaOnly, cursorOnly>>

\* One turn of the loop: fetchmany, the transformation, INSERT, commit.
FullBatch ==
    /\ pc = "full_loop"
    /\ cursor # << >>
    /\ LET batch == FetchMany(cursor)
       IN /\ last_value' = IF Truthy(pk_column) THEN LastPk(batch, last_value)
                           ELSE last_value
          /\ dest' = dest (+) SeqToBag(ProcessBatch(batch))
          /\ rows_synced' = rows_synced + Len(batch)
          /\ cursor' = AfterFetch(cursor)
    /\ run' = [run EXCEPT !.batches = @ + 1]
    /\ UNCHANGED <<tableVars, destExists, syncState, runs, full_sync, pc,
                   strategy, last_sync, last_key_value, ret, prev, srcChanged, ledger>>
    /\ UNCHANGED <<mirrorOnly, orchOnly, schemaOnly, cursorOnly>>

\* Mutant: the failing INSERT leaves the first row of its batch behind.
FullBatchFailsPartial ==
    /\ pc = "full_loop"
    /\ dest' = IF cursor = << >> THEN dest
               ELSE dest (+) SetToBag({ProcessRow(Head(cursor))})
    /\ Return(IntV(0), [run EXCEPT !.outcome = "error"])
    /\ UNCHANGED <<tableVars, destExists, syncState, runs, prev, srcChanged,
                   ledger>>
    /\ UNCHANGED <<mirrorOnly, orchOnly, schemaOnly, cursorOnly>>

\* The SELECT, a fetchmany, an INSERT or its commit raises: the open
\* transaction is rolled back, return 0.
FullBatchFails ==
    /\ pc = "full_loop"
    /\ Return(IntV(0), [run EXCEPT !.outcome = "error"])
    /\ UNCHANGED <<tableVars, destExists, dest, syncState, runs, prev,
                   srcChanged, ledger>>
    /\ UNCHANGED <<mirrorOnly, orchOnly, schemaOnly, cursorOnly>>

\* Mutants: the count is added to the stored one; the method is "full".
FullSyncStateAdditive(pk, value, count) ==
    UpdateSyncState(IF Truthy(pk) /\ Truthy(value) THEN value ELSE NULL,
                    IF Truthy(pk) /\ Truthy(value) THEN "key_based" ELSE "timestamp",
                    count + (IF syncState = NULL THEN 0 ELSE syncState.row_count))
FullSyncStateAsFull(pk, value, count) ==
    UpdateSyncState(IF Truthy(pk) /\ Truthy(value) THEN value ELSE NULL,
                    "full", count)

\* The record sync_full_table saves when the cursor is exhausted.
FullSyncState(pk, value, count) ==
    IF Truthy(pk) /\ Truthy(value)
    THEN UpdateSyncState(value, "key_based", count)
    ELSE UpdateSyncState(NULL, "timestamp", count)

\* The cursor is exhausted: update_sync_state, return rows_synced.
FullFinish ==
    /\ pc = "full_loop"
    /\ cursor = << >>
    /\ syncState' = FullSyncState(pk_column, last_value, rows_synced)
    /\ ledger' = rows_synced
    /\ Return(IntV(rows_synced), [run EXCEPT !.outcome = "ok", !.saved = "yes"])
    /\ UNCHANGED <<tableVars, destExists, dest, runs, prev, srcChanged>>
    /\ UNCHANGED <<mirrorOnly, orchOnly, schemaOnly, cursorOnly>>

\* The same, but the statement of update_sync_state raises: it rolls back
\* and logs, and sync_full_table returns rows_synced all the same.
FullFinishUnsaved ==
    /\ pc = "full_loop"
    /\ cursor = << >>
    /\ Return(IntV(rows_synced), [run EXCEPT !.outcome = "ok", !.saved = "failed"])
    /\ UNCHANGED <<tableVars, destExists, dest, syncState, runs, prev,
                   srcChanged, ledger>>
    /\ UNCHANGED <<mirrorOnly, orchOnly, schemaOnly, cursorOnly>>

\* -------------------------------------------------------- sync_key_based ---
\* Mutant: sync_key_based always hands over to sync_full_table.
KeyBasedPathFull(pk, key_value) == "full"

\* Where sync_key_based goes: to sync_full_table without a primary key
\* column or without a last key value, else to its own loop.
KeyBasedPath(pk, key_value) ==
    IF ~ Truthy(pk) THEN "full"
    ELSE IF ~ Truthy(key_value) THEN "full"
    ELSE "key_loop"

\* The head of sync_key_based: the two fallbacks to sync_full_table, or the
\* incremental SELECT (the COUNT(*) before it only feeds the log).
KeyBegin ==
    /\ pc = "key"
    /\ IF ~ Truthy(pk_column)
       THEN /\ pc' = "full"
            /\ UNCHANGED <<localVars, run>>
       ELSE \E state \in GetLastSync :
               LET key_value == IF state # NULL THEN state.last_key_value ELSE NULL
               IN /\ last_sync' = state
                  /\ last_key_value' = key_value
                  /\ IF KeyBasedPath(pk_column, key_value) = "full"
                     THEN /\ pc' = "full"
                          /\ UNCHANGED <<cursor, rows_synced, last_value, run>>
                     ELSE /\ pc' = "key_loop"
                          /\ cursor' = KeyQuery(src, key_value)
                          /\ rows_synced' = 0
                          /\ last_value' = key_value
                          /\ run' = [run EXCEPT !.path = "key",
                                                !.watermark = key_value]
                  /\ UNCHANGED strategy
    /\ UNCHANGED <<tableVars, destExists, dest, syncState, runs, full_sync,
                   ret, prev, srcChanged, ledger>>
    /\ UNCHANGED <<mirrorOnly, orchOnly, schemaOnly, cursorOnly>>

\* Mutant: every turn of the loop saves the SyncState record.
KeyBatchLocalsSaving(batch) ==
    /\ last_value' = LastPk(batch, last_value)
    /\ rows_synced' = rows_synced + Len(batch)
    /\ cursor' = AfterFetch(cursor)
    /\ syncState' = UpdateSyncState(last_value', "key_based",
                                    rows_synced' + last_sync.row_count)
    /\ pc' = "key_loop"
    /\ UNCHANGED <<tableVars, destExists, runs, full_sync, strategy,
                   last_sync, last_key_value, ret, prev, srcChanged, ledger>>
    /\ UNCHANGED <<mirrorOnly, orchOnly, schemaOnly, cursorOnly>>

\* What one turn of the loop leaves in the locals and the history.
KeyBatchLocals(batch) ==
    /\ last_value' = LastPk(batch, last_value)
    /\ rows_synced' = rows_synced + Len(batch)
    /\ cursor' = AfterFetch(cursor)
    /\ pc' = "key_loop"
    /\ UNCHANGED <<tableVars, destExists, syncState, runs, full_sync,
                   strategy, last_sync, last_key_value, ret, prev, srcChanged, ledger>>
    /\ UNCHANGED <<mirrorOnly, orchOnly, schemaOnly, cursorOnly>>

\* One turn of the loop whose upsert succeeds: commit.
KeyBatchUpsert ==
    /\ pc = "key_loop"
    /\ cursor # << >>
    /\ hasUnique
    /\ LET batch == FetchMany(cursor)
       IN /\ dest' = Upsert(dest, ProcessBatch(batch))
          /\ run' = [run EXCEPT !.batches = @ + 1, !.upserts = @ + 1,
                                !.touched = @ \cup PkValues(batch)]
          /\ KeyBatchLocals(batch)

\* Mutant: the DELETE of the fallback is committed by itself.
DeleteCommittedAtOnce(table, pk_values) == DeleteByKeys(table, pk_values)

\* The committed table after the DELETE of the fallback has been executed:
\* the connection is not in autocommit mode, the statement is part of the
\* open transaction.
DeleteCommitted(table, pk_values) == table

\* The upsert of a turn of the loop raises (always, when the destination
\* has no unique constraint on "id"): rollback, and the DELETE of the
\* fallback is executed.
KeyBatchUpsertFails ==
    /\ pc = "key_loop"
    /\ cursor # << >>
    /\ dest' = DeleteCommitted(dest, PkValues(FetchMany(cursor)))
    /\ pc' = "key_retry"
    /\ UNCHANGED <<tableVars, destExists, syncState, runs, full_sync, ret, run,
                   prev, srcChanged, ledger, localVars>>
    /\ UNCHANGED <<mirrorOnly, orchOnly, schemaOnly, cursorOnly>>

\* The fallback goes through: the plain INSERT, and the commit of the
\* DELETE and the INSERT together.
KeyBatchFallback ==
    /\ pc = "key_retry"
    /\ LET batch == FetchMany(cursor)
       IN /\ dest' = DeleteThenInsert(dest, batch, ProcessBatch(batch))
          /\ run' = [run EXCEPT !.batches = @ + 1, !.fallbacks = @ + 1,
                                !.touched = @ \cup PkValues(batch)]
          /\ KeyBatchLocals(batch)

\* The DELETE, the INSERT or the commit of the fallback raises: the
\* exception leaves the loop, the open transaction is rolled back, return 0.
KeyBatchRetryFails ==
    /\ pc = "key_retry"
    /\ Return(IntV(0), [run EXCEPT !.outcome = "error", !.retryFailed = TRUE])
    /\ UNCHANGED <<tableVars, destExists, dest, syncState, runs, prev,
                   srcChanged, ledger>>
    /\ UNCHANGED <<mirrorOnly, orchOnly, schemaOnly, cursorOnly>>

\* Mutant: the except branch of sync_key_based saves the progress of the
\* batches committed before the error.
KeyBatchFailsSaving ==
    /\ pc = "key_loop"
    /\ syncState' = IF rows_synced > 0
                    THEN UpdateSyncState(last_value, "key_based",
                                         rows_synced + last_sync.row_count)
                    ELSE syncState
    /\ ledger' = ledger + rows_synced
    /\ Return(IntV(0), [run EXCEPT !.outcome = "error"])
    /\ UNCHANGED <<tableVars, destExists, dest, runs, prev, srcChanged>>
    /\ UNCHANGED <<mirrorOnly, orchOnly, schemaOnly, cursorOnly>>

\* The SELECT or a fetchmany raises: the open transaction is rolled back,
\* return 0.
KeyBatchFails ==
    /\ pc = "key_loop"
    /\ Return(IntV(0), [run EXCEPT !.outcome = "error"])
    /\ UNCHANGED <<tableVars, destExists, dest, syncState, runs, prev,
                   srcChanged, ledger>>
    /\ UNCHANGED <<mirrorOnly, orchOnly, schemaOnly, cursorOnly>>

\* Mutant: the stored count is overwritten, not added to.
KeyRowCountOverwrite(count, state) == count

\* row_count of the record sync_key_based saves.
KeyRowCount(count, state) == count + state.row_count

\* Mutant: sync_key_based saves a record at the end of every run.
KeyMustSaveAlways == TRUE

\* sync_key_based saves a record only when it transferred something.
KeyMustSave == rows_synced > 0 \/ last_value # last_key_value

\* The cursor is exhausted: update_sync_state if need be, return rows_synced.
KeyFinish ==
    /\ pc = "key_loop"
    /\ cursor = << >>
    /\ syncState' = IF KeyMustSave
                    THEN UpdateSyncState(last_value, "key_based",
                                         KeyRowCount(rows_synced, last_sync))
                    ELSE syncState
    /\ ledger' = ledger + rows_synced
    /\ Return(IntV(rows_synced),
              [run EXCEPT !.outcome = "ok",
                          !.saved = IF KeyMustSave THEN "yes" ELSE "no"])
    /\ UNCHANGED <<tableVars, destExists, dest, runs, prev, srcChanged>>
    /\ UNCHANGED <<mirrorOnly, orchOnly, schemaOnly, cursorOnly>>

\* The same, but the statement of update_sync_state raises.
KeyFinishUnsaved ==
    /\ pc = "key_loop"
    /\ cursor = << >>
    /\ KeyMustSave
    /\ Return(IntV(rows_synced), [run EXCEPT !.outcome = "ok", !.saved = "failed"])
    /\ UNCHANGED <<tableVars, destExists, dest, syncState, runs, prev,
                   srcChanged, ledger>>
    /\ UNCHANGED <<mirrorOnly, orchOnly, schemaOnly, cursorOnly>>

\* ------------------------------------------------------- the environment ---
\* The process dies inside sync_table; what was committed stays.
Crash ==
    /\ pc # "idle"
    /\ Return(NULL, [run EXCEPT !.outcome = "crash"])
    /\ UNCHANGED <<tableVars, destExists, dest, syncState, runs, prev,
                   srcChanged, ledger>>
    /\ UNCHANGED <<mirrorOnly, orchOnly, schemaOnly, cursorOnly>>

\* Between two runs the source table gains a row.
SourceInsert(row) ==
    /\ pc = "idle"
    /\ runs < MaxRuns
    /\ Len(src) < MaxRows
    /\ \A i \in 1..Len(src) : src[i].key # row.key
    /\ src' = Append(src, row)
    /\ srcChanged' = TRUE
    /\ UNCHANGED <<hasPk, destExists, hasUnique, dest, syncState, runs,
                   full_sync, pc, localVars, ret, run, prev, ledger>>
    /\ UNCHANGED <<mirrorOnly, orchOnly, schemaOnly, cursorOnly>>

Next ==
    \/ \E force \in BOOLEAN : SyncTableBegin(force)
    \/ \E force \in BOOLEAN : SyncTableEnsureFails(force)
    \/ SelectStrategy
    \/ FullBegin
    \/ FullBeginFails
    \/ FullBatch
    \/ FullBatchFails
    \/ FullFinish
    \/ FullFinishUnsaved
    \/ KeyBegin
    \/ KeyBatchUpsert
    \/ KeyBatchUpsertFails
    \/ KeyBatchFallback
    \/ KeyBatchRetryFails
    \/ KeyBatchFails
    \/ KeyFinish
    \/ KeyFinishUnsaved
    \/ Crash
    \/ \E row \in SourceRows : SourceInsert(row)

Spec == Init /\ [][Next]_vars

\* ======================================================= mirror variant ===
\* DBMirror (src/oe2pg.py) mirroring one table in each run of
\* mirror_all_tables.  It shares src, destExists, dest, runs, pc and cursor
\* with the model above and leaves syncOnly alone.

\* f"{schema}.{table_name}" of the table.
TableName == "PUB.t"

\* read_ignore_file(), as the set of its lines.
ReadIgnoreFile == {ignoreFile[i] : i \in 1..Len(ignoreFile)}

\* add_to_ignore_file: one more line.
AddToIgnoreFile(name) == Append(ignoreFile, name)

\* The conversion of the fetch loop: a non-null object becomes
\* str(obj.toString()).
MirrorValue(value) == IF value = NULL THEN NULL ELSE TextV(PyStr(value))
MirrorRow(row) == [key |-> MirrorValue(row.key), val |-> MirrorValue(row.val)]
MirrorBatch(batch) == [i \in 1..Len(batch) |-> MirrorRow(batch[i])]

\* PostgresConnector.get_row_count: the count, or 0 when its query raises.
PgRowCount == {BagCardinality(dest), 0}

\* Mutant: the check also passes with fewer destination rows.
ConvergedAtMost(oe_row_count, pg_row_count) ==
    pg_row_count <= oe_row_count /\ pg_row_count > 0

\* The convergence check of mirror_table.
Converged(oe_row_count, pg_row_count) ==
    oe_row_count = pg_row_count /\ pg_row_count > 0

InitMirror ==
    /\ src \in SourceTables
    /\ destExists \in BOOLEAN
    /\ dest \in IF destExists THEN StaleTables(FALSE) ELSE {EmptyBag}
    /\ ignoreFile = << >>
    /\ total_rows = 0
    /\ success = "none"
    /\ mirror = NoMirror
    /\ runs = 0
    /\ pc = "idle"
    /\ cursor = << >>
    /\ hasPk = FALSE
    /\ hasUnique = FALSE
    /\ syncState = NULL
    /\ full_sync = FALSE
    /\ strategy = "none"
    /\ last_sync = NULL
    /\ last_key_value = NULL
    /\ rows_synced = 0
    /\ last_value = NULL
    /\ ret = NULL
    /\ run = NoRun
    /\ prev = Summary(NoRun)
    /\ srcChanged = FALSE
    /\ ledger = 0
    /\ OrchUnused
    /\ SchemaUnused
    /\ CursorUnused

\* mirror_table returns value ("true" or "false").
MirrorReturn(value) ==
    /\ pc' = "idle"
    /\ success' = value
    /\ cursor' = << >>

\* mirror_all_tables finds the table in the ignore file: it is excluded
\* and gets no entry in results.
MirrorExcluded ==
    /\ pc = "idle"
    /\ runs < MaxRuns
    /\ TableName \in ReadIgnoreFile
    /\ runs' = runs + 1
    /\ success' = "none"
    /\ UNCHANGED <<src, destExists, dest, pc, cursor, ignoreFile, total_rows,
                   mirror, syncOnly, orchOnly, schemaOnly, cursorOnly>>

\* mirror_all_tables calls mirror_table for the table, which is not in the
\* ignore file.
MirrorTableBegin ==
    /\ pc = "idle"
    /\ runs < MaxRuns
    /\ TableName \notin ReadIgnoreFile
    /\ runs' = runs + 1
    /\ success' = "none"
    /\ total_rows' = 0
    /\ mirror' = [NoMirror EXCEPT !.startDest = dest]
    /\ pc' = "m_columns"
    /\ UNCHANGED <<src, destExists, dest, cursor, ignoreFile, syncOnly, orchOnly, schemaOnly, cursorOnly>>

\* get_columns returns the columns.
MirrorGetColumns ==
    /\ pc = "m_columns"
    /\ pc' = "m_create"
    /\ UNCHANGED <<src, destExists, dest, runs, cursor, ignoreFile, total_rows,
                   success, mirror, syncOnly, orchOnly, schemaOnly, cursorOnly>>

\* get_columns returns [] (its query raised, which it only logs): the table
\* goes to the ignore file, return False.
MirrorGetColumnsFails ==
    /\ pc = "m_columns"
    /\ ignoreFile' = AddToIgnoreFile(TableName)
    /\ MirrorReturn("false")
    /\ UNCHANGED <<src, destExists, dest, runs, total_rows, mirror, syncOnly, orchOnly, schemaOnly, cursorOnly>>

\* create_table: CREATE TABLE IF NOT EXISTS, commit.
MirrorCreateTable ==
    /\ pc = "m_create"
    /\ destExists' = TRUE
    /\ pc' = "m_count"
    /\ UNCHANGED <<src, dest, runs, cursor, ignoreFile, total_rows, success,
                   mirror, syncOnly, orchOnly, schemaOnly, cursorOnly>>

\* create_table returns False: ignore file, return False.
MirrorCreateTableFails ==
    /\ pc = "m_create"
    /\ ignoreFile' = AddToIgnoreFile(TableName)
    /\ MirrorReturn("false")
    /\ UNCHANGED <<src, destExists, dest, runs, total_rows, mirror, syncOnly, orchOnly, schemaOnly, cursorOnly>>

\* The COUNT(*) of ProgressConnector.get_row_count raises: it puts the
\* table in the ignore file itself and returns 0; mirror_table finds the
\* table in the ignore file and returns False.
MirrorCountFails ==
    /\ pc = "m_count"
    /\ ignoreFile' = AddToIgnoreFile(TableName)
    /\ MirrorReturn("false")
    /\ UNCHANGED <<src, destExists, dest, runs, total_rows, mirror, syncOnly, orchOnly, schemaOnly, cursorOnly>>

\* The source table has no rows: return True.
MirrorCountZero ==
    /\ pc = "m_count"
    /\ Len(src) = 0
    /\ MirrorReturn("true")
    /\ UNCHANGED <<src, destExists, dest, runs, ignoreFile, total_rows, mirror,
                   syncOnly, orchOnly, schemaOnly, cursorOnly>>

\* The destination already has as many rows as the source: return True.
MirrorConverged ==
    /\ pc = "m_count"
    /\ Len(src) # 0
    /\ \E pg_row_count \in PgRowCount : Converged(Len(src), pg_row_count)
    /\ MirrorReturn("true")
    /\ UNCHANGED <<src, destExists, dest, runs, ignoreFile, total_rows, mirror,
                   syncOnly, orchOnly, schemaOnly, cursorOnly>>

\* The counts differ: truncate_table (TRUNCATE, commit).
MirrorTruncate ==
    /\ pc = "m_count"
    /\ Len(src) # 0
    /\ \E pg_row_count \in PgRowCount :
          /\ ~ Converged(Len(src), pg_row_count)
          /\ mirror' = [mirror EXCEPT !.truncated = TRUE,
                                      !.pg_row_count = pg_row_count]
    /\ dest' = Truncate(dest)
    /\ pc' = "m_fetch"
    /\ UNCHANGED <<src, destExists, runs, cursor, ignoreFile, total_rows,
                   success, syncOnly, orchOnly, schemaOnly, cursorOnly>>

\* The counts differ and truncate_table returns False: ignore file, return
\* False.
MirrorTruncateFails ==
    /\ pc = "m_count"
    /\ Len(src) # 0
    /\ \E pg_row_count \in PgRowCount : ~ Converged(Len(src), pg_row_count)
    /\ ignoreFile' = AddToIgnoreFile(TableName)
    /\ MirrorReturn("false")
    /\ UNCHANGED <<src, destExists, dest, runs, total_rows, mirror, syncOnly, orchOnly, schemaOnly, cursorOnly>>

\* fetch_and_process_data: get_row_count again, then the SELECT.
FetchOpen ==
    /\ pc = "m_fetch"
    /\ IF Len(src) = 0
       THEN MirrorReturn("true")
       ELSE /\ cursor' = src
            /\ pc' = "m_loop"
            /\ UNCHANGED success
    /\ UNCHANGED <<src, destExists, dest, runs, ignoreFile, total_rows, mirror,
                   syncOnly, orchOnly, schemaOnly, cursorOnly>>

\* The COUNT(*) of fetch_and_process_data raises: get_row_count puts the
\* table in the ignore file and returns 0, fetch_and_process_data returns 0
\* and mirror_table returns True.
FetchCountFails ==
    /\ pc = "m_fetch"
    /\ ignoreFile' = AddToIgnoreFile(TableName)
    /\ MirrorReturn("true")
    /\ UNCHANGED <<src, destExists, dest, runs, total_rows, mirror, syncOnly, orchOnly, schemaOnly, cursorOnly>>

\* The loop reads rows until current_batch is full or the result is
\* exhausted; insert_data inserts the batch and commits.
FetchBatch ==
    /\ pc = "m_loop"
    /\ cursor # << >>
    /\ LET current_batch == MirrorBatch(FetchMany(cursor))
       IN /\ dest' = dest (+) SeqToBag(current_batch)
          /\ total_rows' = total_rows + Len(current_batch)
          /\ mirror' = [mirror EXCEPT !.inserted = @ + Len(current_batch)]
    /\ cursor' = AfterFetch(cursor)
    /\ UNCHANGED <<src, destExists, runs, pc, ignoreFile, success, syncOnly, orchOnly, schemaOnly, cursorOnly>>

\* The same, but the INSERT of insert_data raises: it rolls back and
\* returns 0, and the loop goes on.
FetchBatchInsertFails ==
    /\ pc = "m_loop"
    /\ cursor # << >>
    /\ LET current_batch == MirrorBatch(FetchMany(cursor))
       IN /\ total_rows' = total_rows + Len(current_batch)
          /\ mirror' = [mirror EXCEPT !.lost = @ + Len(current_batch)]
    /\ cursor' = AfterFetch(cursor)
    /\ UNCHANGED <<src, destExists, dest, runs, pc, ignoreFile, success,
                   syncOnly, orchOnly, schemaOnly, cursorOnly>>

\* The SELECT or a read of the result raises: the table goes to the ignore
\* file, fetch_and_process_data returns total_rows, mirror_table True.
FetchFails ==
    /\ pc = "m_loop"
    /\ ignoreFile' = AddToIgnoreFile(TableName)
    /\ MirrorReturn("true")
    /\ UNCHANGED <<src, destExists, dest, runs, total_rows, mirror, syncOnly, orchOnly, schemaOnly, cursorOnly>>

\* The result is exhausted: mirror_table returns True.
FetchFinish ==
    /\ pc = "m_loop"
    /\ cursor = << >>
    /\ MirrorReturn("true")
    /\ UNCHANGED <<src, destExists, dest, runs, ignoreFile, total_rows, mirror,
                   syncOnly, orchOnly, schemaOnly, cursorOnly>>

\* Between two runs the source table gains a row.
MirrorSourceInsert(row) ==
    /\ pc = "idle"
    /\ runs < MaxRuns
    /\ Len(src) < MaxRows
    /\ \A i \in 1..Len(src) : src[i].key # row.key
    /\ src' = Append(src, row)
    /\ mirror' = [mirror EXCEPT !.srcChanged = TRUE]
    /\ UNCHANGED <<destExists, dest, runs, pc, cursor, ignoreFile, total_rows,
                   success, syncOnly, orchOnly, schemaOnly, cursorOnly>>

MirrorNext ==
    \/ MirrorExcluded
    \/ MirrorTableBegin
    \/ MirrorGetColumns
    \/ MirrorGetColumnsFails
    \/ MirrorCreateTable
    \/ MirrorCreateTableFails
    \/ MirrorCountFails
    \/ MirrorCountZero
    \/ MirrorConverged
    \/ MirrorTruncate
    \/ MirrorTruncateFails
    \/ FetchOpen
    \/ FetchCountFails
    \/ FetchBatch
    \/ FetchBatchInsertFails
    \/ FetchFails
    \/ FetchFinish
    \/ \E row \in SourceRows : MirrorSourceInsert(row)

SpecMirror == InitMirror /\ [][MirrorNext]_vars

\* ======================================================== orchestration ===
\* run_sync (src/src/oe2pg.py) and mirror_all_tables (src/oe2pg.py) over
\* the tables of the source catalog, in several process runs.  What a run
\* does to one table is one step.  The ignore file is read and appended
\* without error.

\* Largest number of lines written into the ignore file by hand while the
\* program runs or between two runs.
MaxEdits == 1

\* TABLE_NAME of the tables of schema PUB, in catalog order.
Catalog == <<"Cust", "_File", "ord">>

\* str.lower(), on the strings of this model.
Lower(name) ==
    CASE name = "Cust" -> "cust"
      [] name = "_File" -> "_file"
      [] name = "ORD" -> "ord"
      [] name = "ID" -> "id"
      [] name = "Name" -> "name"
      [] name = "PUB.Cust" -> "pub.cust"
      [] name = "PUB._File" -> "pub._file"
      [] name = "PUB.ord" -> "pub.ord"
      [] OTHER -> name

\* table_name.startswith("_")
StartsWithUnderscore(name) == name \in {"_File", "_file"}

\* f"{schema}.{table_name}"
FullName(name) == "PUB." \o name

\* Lines an operator writes into the ignore file by hand: for run_sync a
\* table name in any case, for mirror_all_tables a qualified name.
HandLines ==
    IF program = "sync" THEN {"Cust", "ord"} ELSE {"PUB.Cust", "PUB.ord"}

\* The --ignore-table arguments of a run.
IgnoreOptions == {<< >>, <<"ORD">>}

\* Mutant: the lines are not lower-cased.
LoadIgnoreListRaw(file) == {file[n] : n \in 1..Len(file)}

\* load_ignore_list: the lower-cased lines of the file.
LoadIgnoreList(file) == {Lower(file[n]) : n \in 1..Len(file)}

\* add_to_ignore_list: every table not yet in ignored_tables is appended
\* to the file and added to the set, lower-cased.
RECURSIVE AddToIgnoreList(_, _, _)
AddToIgnoreList(file, ignored, names) ==
    IF names = << >> THEN [file |-> file, ignored |-> ignored]
    ELSE LET table == Lower(Head(names))
         IN IF table \in ignored
            THEN AddToIgnoreList(file, ignored, Tail(names))
            ELSE AddToIgnoreList(Append(file, table), ignored \cup {table},
                                 Tail(names))

\* The subsequence of names whose position is in keep.
RECURSIVE Select(_, _, _)
Select(names, keep, n) ==
    IF n > Len(names) THEN << >>
    ELSE (IF n \in keep THEN <<names[n]>> ELSE << >>) \o Select(names, keep, n + 1)

\* The catalog entries the while loop of get_source_tables does not skip.
Considered(read, ignored) ==
    {n \in 1..read : /\ ~ StartsWithUnderscore(Lower(Catalog[n]))
                     /\ Lower(Catalog[n]) \notin ignored}

\* Mutant: a permission error ends the enumeration; the tables found
\* before it are returned.
GetSourceTablesAbort(read, raised, outcome, ignored) ==
    IF raised THEN << >>
    ELSE Select([n \in 1..Len(Catalog) |-> Lower(Catalog[n])],
                {n \in Considered(read, ignored) :
                    /\ outcome[n] = "ok"
                    /\ \A m \in Considered(read, ignored) :
                          m < n => outcome[m] # "denied"}, 1)

\* get_source_tables: the loop reads `read` catalog entries; outcome[n] says
\* how the SELECT ... WHERE 1=0 of entry n went ("ok", "error" for an
\* exception or no columns, "denied" for a permission error); `raised` says
\* that the enumeration itself raised, and then the result is [].
GetSourceTables(read, raised, outcome, ignored) ==
    IF raised THEN << >>
    ELSE Select([n \in 1..Len(Catalog) |-> Lower(Catalog[n])],
                {n \in Considered(read, ignored) : outcome[n] = "ok"}, 1)

\* The tables get_source_tables hands to add_to_ignore_list.
Denied(read, outcome, ignored) ==
    Select(Catalog, {n \in Considered(read, ignored) : outcome[n] = "denied"}, 1)

\* get_tables: the entries read before the enumeration raised, if it did.
GetTables(read) == SubSeq(Catalog, 1, read)

\* included_tables of mirror_all_tables.
IncludedTables(names, exclude_tables) ==
    Select(names, {n \in 1..Len(names) : /\ names[n] \notin exclude_tables
                                         /\ FullName(names[n]) \notin exclude_tables}, 1)

\* Mutant: the loop over the tables ends with the first table that fails.
NextIndexAbort(i, outcome) == IF outcome = "ok" THEN i + 1 ELSE Len(tables) + 1

\* The loop over the tables goes on whatever became of table i.
NextIndex(i, outcome) == i + 1

\* results[key] = value
Put(dict, key, value) ==
    [k \in (DOMAIN dict) \cup {key} |-> IF k = key THEN value ELSE dict[k]]

InitRun ==
    /\ program \in {"sync", "mirror"}
    /\ ignoreFile \in {<< >>} \cup {<<line>> : line \in HandLines}
    /\ connected = FALSE
    /\ ignored_tables = {}
    /\ tables = << >>
    /\ index = 0
    /\ results = [t \in {} |-> FALSE]
    /\ orch = NoOrch
    /\ runs = 0
    /\ pc = "idle"
    /\ src = << >>
    /\ hasPk = FALSE
    /\ destExists = FALSE
    /\ hasUnique = FALSE
    /\ dest = EmptyBag
    /\ syncState = NULL
    /\ full_sync = FALSE
    /\ strategy = "none"
    /\ last_sync = NULL
    /\ last_key_value = NULL
    /\ cursor = << >>
    /\ rows_synced = 0
    /\ last_value = NULL
    /\ ret = NULL
    /\ run = NoRun
    /\ prev = Summary(NoRun)
    /\ srcChanged = FALSE
    /\ ledger = 0
    /\ total_rows = 0
    /\ success = "none"
    /\ mirror = NoMirror
    /\ SchemaUnused
    /\ CursorUnused

\* What the orchestration steps leave alone.
orchFrame ==
    <<src, hasPk, destExists, hasUnique, dest, syncState, full_sync, localVars,
      ret, run, prev, srcChanged, ledger, total_rows, success, mirror,
      schemaOnly, cursorOnly, program>>

\* A process starts: DataSyncManager.__init__ loads the ignore list and
\* adds the --ignore-table arguments to it; run_sync begins.
RunSyncBegin(ignore_tables) ==
    /\ program = "sync"
    /\ pc = "idle"
    /\ runs < MaxRuns
    /\ runs' = runs + 1
    /\ LET added == AddToIgnoreList(ignoreFile, LoadIgnoreList(ignoreFile),
                                    ignore_tables)
       IN /\ ignoreFile' = added.file
          /\ ignored_tables' = added.ignored
          /\ orch' = [NoOrch EXCEPT
                 !.end = "running",
                 !.edits = orch.edits,
                 !.inherited = {Lower(ignoreFile[n]) : n \in 1..Len(ignoreFile)},
                 !.registered =
                     {Lower(ignoreFile[n]) : n \in 1..Len(ignoreFile)}
                        \cup {Lower(ignore_tables[n]) : n \in 1..Len(ignore_tables)}]
    /\ connected' = FALSE
    /\ tables' = << >>
    /\ index' = 0
    /\ pc' = "r_connect"
    /\ UNCHANGED <<results, orchFrame>>

\* A process starts: mirror_all_tables puts the lines of the ignore file
\* into exclude_tables (EXCLUDE_TABLES is empty).
MirrorAllBegin ==
    /\ program = "mirror"
    /\ pc = "idle"
    /\ runs < MaxRuns
    /\ runs' = runs + 1
    /\ ignored_tables' = ReadIgnoreFile
    /\ orch' = [NoOrch EXCEPT !.end = "running", !.edits = orch.edits,
                              !.inherited = ReadIgnoreFile,
                              !.registered = ReadIgnoreFile]
    /\ connected' = FALSE
    /\ tables' = << >>
    /\ index' = 0
    /\ results' = [t \in {} |-> FALSE]
    /\ pc' = "r_connect"
    /\ UNCHANGED <<ignoreFile, orchFrame>>

\* connect_databases (run_sync) or progress.connect and postgres.connect
\* (mirror_all_tables) succeed.
RunConnect ==
    /\ pc = "r_connect"
    /\ connected' = TRUE
    /\ pc' = "r_catalog"
    /\ UNCHANGED <<ignoreFile, runs, ignored_tables, tables, index, results,
                   orch, orchFrame>>

\* One of the connections fails: the run ends.
RunConnectFails ==
    /\ pc = "r_connect"
    /\ pc' = "idle"
    /\ orch' = [orch EXCEPT !.end = "connect_failed"]
    /\ UNCHANGED <<ignoreFile, runs, connected, ignored_tables, tables, index,
                   results, orchFrame>>

\* get_source_tables, and the end of the run when it returns no table.
RunSyncCatalog ==
    /\ program = "sync"
    /\ pc = "r_catalog"
    /\ \E read \in 0..Len(Catalog), raised \in BOOLEAN,
          outcome \in [1..Len(Catalog) -> {"ok", "error", "denied"}] :
          /\ read < Len(Catalog) => raised
          /\ LET added == AddToIgnoreList(ignoreFile, ignored_tables,
                                          Denied(read, outcome, ignored_tables))
                 found == GetSourceTables(read, raised, outcome, ignored_tables)
             IN /\ ignoreFile' = added.file
                /\ ignored_tables' = added.ignored
                /\ tables' = found
                /\ index' = 1
                /\ pc' = IF found = << >> THEN "idle" ELSE "r_loop"
                /\ orch' = [orch EXCEPT
                       !.raised = raised,
                       !.end = IF found = << >> THEN "no_tables" ELSE @,
                       !.registered = @ \cup (added.ignored \ ignored_tables),
                       !.denied =
                           {Lower(Catalog[n]) :
                               n \in {m \in Considered(read, ignored_tables) :
                                         outcome[m] = "denied"}},
                       !.ok =
                           IF raised THEN {}
                           ELSE {Lower(Catalog[n]) :
                                   n \in {m \in Considered(read, ignored_tables) :
                                             outcome[m] = "ok"}}]
    /\ UNCHANGED <<runs, connected, results, orchFrame>>

\* get_tables and the filter of mirror_all_tables; an exception of the
\* enumeration is logged by get_tables, which returns what it has read.
MirrorAllCatalog ==
    /\ program = "mirror"
    /\ pc = "r_catalog"
    /\ \E read \in 0..Len(Catalog), raised \in BOOLEAN :
          /\ read < Len(Catalog) => raised
          /\ tables' = IncludedTables(GetTables(read), ignored_tables)
          /\ orch' = [orch EXCEPT !.raised = raised]
    /\ index' = 1
    /\ pc' = "r_loop"
    /\ UNCHANGED <<ignoreFile, runs, connected, ignored_tables, results,
                   orchFrame>>

\* One turn of the loop of run_sync: sync_table reconciles and transfers
\* the table ("ok"), returns 0 after a failure ("zero") or raises
\* ("raise"); the exception is logged.
RunSyncTable ==
    /\ program = "sync"
    /\ pc = "r_loop"
    /\ index <= Len(tables)
    /\ \E outcome \in {"ok", "zero", "raise"} :
          LET table == tables[index]
          IN /\ orch' = [orch EXCEPT
                    !.attempted = Append(@, table),
                    !.touched = @ \cup {table},
                    !.failed = IF outcome = "ok" THEN @ ELSE @ \cup {table},
                    !.ignoredTouched =
                        IF table \in {Lower(line) : line \in orch.late}
                        THEN @ \cup {table} ELSE @]
             /\ index' = NextIndex(index, outcome)
    /\ UNCHANGED <<ignoreFile, runs, pc, connected, ignored_tables, tables,
                   results, orchFrame>>

\* One turn of the loop of mirror_all_tables: mirror_table returns False at
\* once for a table of the ignore file; otherwise it mirrors the table
\* ("ok"), fails, writes the table into the ignore file and returns False
\* ("false"), loses a batch in insert_data and returns True ("insert_lost"),
\* or fails in the fetch loop, writes the table into the ignore file and
\* returns True ("fetch_failed").
MirrorAllTable ==
    /\ program = "mirror"
    /\ pc = "r_loop"
    /\ index <= Len(tables)
    /\ LET table == tables[index]
       IN IF FullName(table) \in ReadIgnoreFile
          THEN /\ results' = Put(results, FullName(table), FALSE)
               /\ orch' = [orch EXCEPT !.attempted = Append(@, table)]
               /\ index' = NextIndex(index, "false")
               /\ UNCHANGED ignoreFile
          ELSE \E outcome \in {"ok", "false", "insert_lost", "fetch_failed"} :
                  /\ results' = Put(results, FullName(table), outcome # "false")
                  /\ ignoreFile' = IF outcome \in {"false", "fetch_failed"}
                                   THEN AddToIgnoreFile(FullName(table))
                                   ELSE ignoreFile
                  /\ orch' = [orch EXCEPT
                         !.attempted = Append(@, table),
                         !.touched = @ \cup {table},
                         !.failed = IF outcome = "ok" THEN @ ELSE @ \cup {table},
                         !.written = IF outcome \in {"false", "fetch_failed"}
                                     THEN Append(@, FullName(table))
                                     ELSE @]
                  /\ index' = NextIndex(index, outcome)
    /\ UNCHANGED <<runs, pc, connected, ignored_tables, tables, orchFrame>>

\* The loop is through: the run ends and the connections are closed.
RunEnd ==
    /\ pc = "r_loop"
    /\ index > Len(tables)
    /\ pc' = "idle"
    /\ connected' = FALSE
    /\ orch' = [orch EXCEPT !.end = "completed"]
    /\ UNCHANGED <<ignoreFile, runs, ignored_tables, tables, index, results,
                   orchFrame>>

\* An operator appends a line to the ignore file.
IgnoreFileEdit(line) ==
    /\ orch.edits < MaxEdits
    /\ line \notin ReadIgnoreFile
    /\ ignoreFile' = Append(ignoreFile, line)
    /\ orch' = [orch EXCEPT !.edits = @ + 1,
                            !.late = IF pc = "r_loop" THEN @ \cup {line} ELSE @]
    /\ UNCHANGED <<runs, pc, connected, ignored_tables, tables, index, results,
                   orchFrame>>

NextRun ==
    \/ \E ignore_tables \in IgnoreOptions : RunSyncBegin(ignore_tables)
    \/ MirrorAllBegin
    \/ RunConnect
    \/ RunConnectFails
    \/ RunSyncCatalog
    \/ MirrorAllCatalog
    \/ RunSyncTable
    \/ MirrorAllTable
    \/ RunEnd
    \/ \E line \in HandLines : IgnoreFileEdit(line)

SpecRun == InitRun /\ [][NextRun]_vars

\* ======================================================= reconciliation ===
\* ensure_target_table (src/src/oe2pg.py) on one table, statement by
\* statement, in several runs.  A column of the destination table is a
\* record of its name, as PostgreSQL stores it, and its type.

\* The column names of the source table, as cursor.description gives them.
SourceColumnNames == {"ID", "Name", "qty"}

\* Descriptors get_source_tables builds: the lower-cased names of a
\* non-empty set of source columns.
Descriptors ==
    {{Lower(name) : name \in chosen} : chosen \in (SUBSET SourceColumnNames) \ {{}}}

\* Columns the destination table may have before the first run, made by
\* another program or by hand.
OldColumns ==
    {[name |-> "id", type |-> "INTEGER"], [name |-> "Name", type |-> "TEXT"],
     [name |-> "name", type |-> "TEXT"]}

\* column_defs of the CREATE TABLE: every column TEXT.
CreateTable(names) == {[name |-> column, type |-> "TEXT"] : column \in names}

\* existing_columns: column_name of information_schema.columns.
ExistingColumns(table) == {column.name : column \in table}

\* Mutants: nothing is missing; everything is missing.
MissingColumnsNone(names, existing_columns) == {}
MissingColumnsAll(names, existing_columns) == {Lower(column) : column \in names}

\* missing_columns = source_columns - existing_columns
MissingColumns(names, existing_columns) ==
    {Lower(column) : column \in names} \ existing_columns

\* Mutant: the commit drops the columns the descriptor does not name.
CommitColumnsExact(committed, added) ==
    {column \in committed : column.name \in columns} \cup added

\* The table after the commit of the ADD COLUMN statements.
CommitColumns(committed, added) == committed \cup added

InitSchema ==
    /\ columns \in Descriptors
    /\ destExists \in BOOLEAN
    /\ destColumns \in IF destExists THEN (SUBSET OldColumns) \ {{}} ELSE {{}}
    /\ txnColumns = {}
    /\ missing_columns = {}
    /\ ensured = "none"
    /\ ddl = NoDdl
    /\ runs = 0
    /\ pc = "idle"
    /\ src = << >>
    /\ hasPk = FALSE
    /\ hasUnique = FALSE
    /\ dest = EmptyBag
    /\ syncState = NULL
    /\ full_sync = FALSE
    /\ strategy = "none"
    /\ last_sync = NULL
    /\ last_key_value = NULL
    /\ cursor = << >>
    /\ rows_synced = 0
    /\ last_value = NULL
    /\ ret = NULL
    /\ run = NoRun
    /\ prev = Summary(NoRun)
    /\ srcChanged = FALSE
    /\ ledger = 0
    /\ ignoreFile = << >>
    /\ total_rows = 0
    /\ success = "none"
    /\ mirror = NoMirror
    /\ OrchUnused
    /\ CursorUnused

\* What the steps of ensure_target_table leave alone.
schemaFrame ==
    <<src, hasPk, hasUnique, dest, syncState, full_sync, localVars, ret, run,
      prev, srcChanged, ledger, mirrorOnly, orchOnly, cursorOnly, columns>>

\* ensure_target_table returns value; an open transaction is gone.
EnsureReturn(value) ==
    /\ pc' = "idle"
    /\ ensured' = value
    /\ txnColumns' = {}
    /\ missing_columns' = {}

\* sync_table calls ensure_target_table: the SELECT EXISTS.
EnsureBegin ==
    /\ pc = "idle"
    /\ runs < MaxRuns
    /\ runs' = runs + 1
    /\ ensured' = "none"
    /\ ddl' = [NoDdl EXCEPT !.startExists = destExists,
                            !.startColumns = destColumns,
                            !.again = (ensured = "true" /\ ~ ddl.stale)]
    /\ pc' = IF destExists THEN "e_columns" ELSE "e_create"
    /\ UNCHANGED <<destExists, destColumns, txnColumns, missing_columns,
                   schemaFrame>>

\* The table is absent: CREATE TABLE, commit, return True.
EnsureCreate ==
    /\ pc = "e_create"
    /\ destExists' = TRUE
    /\ destColumns' = CreateTable(columns)
    /\ ddl' = [ddl EXCEPT !.creates = @ + 1]
    /\ EnsureReturn("true")
    /\ UNCHANGED <<runs, schemaFrame>>

\* The table is present: the SELECT of its columns and the set difference.
EnsureColumns ==
    /\ pc = "e_columns"
    /\ missing_columns' = MissingColumns(columns, ExistingColumns(destColumns))
    /\ pc' = "e_add"
    /\ UNCHANGED <<destExists, destColumns, txnColumns, ensured, ddl, runs,
                   schemaFrame>>

\* One turn of the loop: ALTER TABLE ... ADD COLUMN, not yet committed.
EnsureAddColumn ==
    /\ pc = "e_add"
    /\ \E column \in missing_columns :
          /\ txnColumns' = txnColumns \cup CreateTable({column})
          /\ missing_columns' = missing_columns \ {column}
    /\ ddl' = [ddl EXCEPT !.adds = @ + 1]
    /\ UNCHANGED <<destExists, destColumns, ensured, runs, pc, schemaFrame>>

\* The loop is through: commit if anything was added, return True.
EnsureCommit ==
    /\ pc = "e_add"
    /\ missing_columns = {}
    /\ destColumns' = CommitColumns(destColumns, txnColumns)
    /\ EnsureReturn("true")
    /\ UNCHANGED <<destExists, ddl, runs, schemaFrame>>

\* A statement or the commit raises: rollback of the open transaction,
\* return False.  The ADD COLUMN statements that had succeeded are part of
\* that transaction.
EnsureFails ==
    /\ pc \in {"e_create", "e_columns", "e_add"}
    /\ pc = "e_add" => (missing_columns # {} \/ txnColumns # {})
    /\ ddl' = [ddl EXCEPT !.succeeded = txnColumns]
    /\ EnsureReturn("false")
    /\ UNCHANGED <<destExists, destColumns, runs, schemaFrame>>

\* Between two runs the source table gains a column.
SourceAddColumn(name) ==
    /\ pc = "idle"
    /\ runs < MaxRuns
    /\ Lower(name) \notin columns
    /\ columns' = columns \cup {Lower(name)}
    /\ ddl' = [ddl EXCEPT !.stale = TRUE]
    /\ UNCHANGED <<src, hasPk, hasUnique, dest, syncState, full_sync, localVars,
                   ret, run, prev, srcChanged, ledger, mirrorOnly, orchOnly,
                   cursorOnly, destExists, destColumns, txnColumns,
                   missing_columns, ensured, runs, pc>>

NextSchema ==
    \/ EnsureBegin
    \/ EnsureCreate
    \/ EnsureColumns
    \/ EnsureAddColumn
    \/ EnsureCommit
    \/ EnsureFails
    \/ \E name \in SourceColumnNames : SourceAddColumn(name)

SpecSchema == InitSchema /\ [][NextSchema]_vars

\* =============================================================== claims ===
\* Shorthands for the history of the current and of the previous run.
Returned == pc = "idle" /\ run.outcome = "ok"
Saved == Returned /\ run.saved # "failed"
Interrupted(history) == history.outcome \in {"error", "crash"}
KeyOf(text) == IF text = NULL THEN 0 ELSE ParseKey(text)

\* C1: get_sync_strategy returns "full" when full_sync is set, otherwise
\* "full" when get_last_sync gave no prior SyncState, otherwise "key_based"
\* when the table has a primary key column, otherwise "timestamp"; and the
\* step changes neither the SyncState store nor the destination table.
C1_StrategyDecision ==
    [][(pc = "select" /\ pc' \in {"full", "key"}) =>
          /\ strategy' = CASE full_sync -> "full"
                           [] ~ full_sync /\ last_sync' = NULL -> "full"
                           [] ~ full_sync /\ last_sync' # NULL /\ hasPk -> "key_based"
                           [] OTHER -> "timestamp"
          /\ syncState' = syncState
          /\ dest' = dest]_vars

C1_Witness ==
    /\ pc = "key"
    /\ strategy = "key_based"
    /\ ~ full_sync /\ last_sync # NULL /\ hasPk

\* C2: in a key_based run that started from the stored watermark K, every
\* key the run writes or deletes in the destination is greater than K, and
\* every destination row whose key is not greater than K is there as often
\* as it was when the run began; with the upsert and with the fallback.
C2_Resumability ==
    run.path = "key" =>
        /\ \A value \in run.touched : value.v > ParseKey(run.watermark)
        /\ \A r \in (DOMAIN dest) \cup (DOMAIN run.startDest) :
              KeyOf(r.key) <= ParseKey(run.watermark) =>
                  CopiesIn(r, dest) = CopiesIn(r, run.startDest)

C2_Witness ==
    /\ Returned /\ run.path = "key"
    /\ run.fallbacks >= 1
    /\ \E r \in DOMAIN dest : KeyOf(r.key) <= ParseKey(run.watermark)
    /\ dest # run.startDest

\* C3: after a key_based run that returned normally, the stored
\* last_key_value is not below the one stored when the run began, in the
\* order of the source's key column.
C3_WatermarkMonotone ==
    (Returned /\ run.path = "key") =>
        /\ syncState # NULL
        /\ ParseKey(syncState.last_key_value)
              >= ParseKey(run.startState.last_key_value)

C3_Witness ==
    /\ Returned /\ run.path = "key" /\ run.saved = "yes"
    /\ ParseKey(syncState.last_key_value)
          > ParseKey(run.startState.last_key_value)

\* C4: the stored row_count is the row_count B saved by the last full sync
\* plus the rows r1..rN of the key_based runs saved since (the ledger), and
\* a key_based run that saved its record left row_count at the value it
\* had before plus the rows the run transferred, never a smaller one.
C4_AdditiveRowCount ==
    /\ syncState # NULL => syncState.row_count = ledger
    /\ (Saved /\ run.path = "key") =>
          /\ syncState.row_count = run.startState.row_count + ret.v
          /\ syncState.row_count >= run.startState.row_count

C4_Witness ==
    /\ Saved /\ run.path = "key" /\ run.saved = "yes" /\ ret.v >= 1
    /\ prev.path = "key" /\ prev.outcome = "ok" /\ prev.batches >= 1
    /\ run.startState.row_count >= 2

\* C5: after a full sync that returned normally and saved its record, the
\* stored row_count is the number of rows the run transferred, whatever
\* was stored before, and it is the number of rows of the destination.
C5_FullRowCount ==
    (Saved /\ run.path = "full") =>
        /\ syncState.row_count = ret.v
        /\ syncState.row_count = BagCardinality(dest)

C5_Witness ==
    /\ Saved /\ run.path = "full" /\ ret.v >= 1
    /\ run.startState # NULL /\ run.startState.row_count >= 1

C7_FullIdempotent ==
    (Returned /\ run.path = "full" /\ run.srcSame
        /\ prev.path = "full" /\ prev.outcome = "ok") =>
        dest = run.startDest

C7_Witness ==
    /\ Returned /\ run.path = "full" /\ run.srcSame
    /\ prev.path = "full" /\ prev.outcome = "ok"
    /\ BagCardinality(dest) >= 2

\* C8 as stated: after a full sync that reported success (sync_full_table
\* returned normally; mirror_table returned True after its TRUNCATE), with
\* the source as it was during the run, the destination holds exactly the
\* transformed source rows, one destination row per source row, whatever
\* it held before.
C8_FullReload ==
    /\ (Returned /\ run.path = "full" /\ ~ srcChanged) =>
          dest = SeqToBag(ProcessBatch(src))
    /\ (pc = "idle" /\ success = "true" /\ mirror.truncated
          /\ ~ mirror.srcChanged) =>
          dest = SeqToBag(MirrorBatch(src))

\* C9 as stated: when a full sync was interrupted after its TRUNCATE and
\* before its SyncState update, the next run without the force-full flag
\* does not take the incremental key_based path.
C9_InterruptedFullRedone ==
    (pc # "idle" /\ ~ full_sync /\ prev.path = "full" /\ prev.truncated
        /\ Interrupted(prev)) =>
        run.path # "key"

C11_StateWrittenAtEnd ==
    /\ [](pc \in {"select", "full", "full_loop", "key", "key_loop",
                  "key_retry"} =>
            syncState = run.startState)
    /\ [][syncState' # syncState =>
            /\ pc \in {"full_loop", "key_loop"}
            /\ cursor = << >>
            /\ pc' = "idle"]_vars

C11_Witness ==
    /\ Returned /\ run.saved = "yes" /\ run.batches >= 2
    /\ run.startState # NULL
    /\ syncState # run.startState

\* The identifiers the ignore file holds, as run_sync reads them, and the
\* position of a table in the catalog.
FileNames == {Lower(ignoreFile[n]) : n \in 1..Len(ignoreFile)}
CatalogPos(name) == CHOOSE n \in 1..Len(Catalog) : Lower(Catalog[n]) = Lower(name)

\* C12 as stated: every table for which a per-table operation failed in
\* this run is in the Ignore Registry, in memory and in the ignore file,
\* when the orchestrator has moved on.
C12_FailedTablesIgnored ==
    \A table \in orch.failed :
        IF program = "sync"
        THEN table \in ignored_tables /\ table \in FileNames
        ELSE FullName(table) \in ReadIgnoreFile

\* C13: the tables attempted so far are the candidate list up to the
\* position of the loop, the candidate list is in catalog order, and a run
\* that got through connecting and enumerating has attempted every table
\* of the list when it ends, whatever failed on the way.
C13_FailureIsolation ==
    /\ pc = "r_loop" => orch.attempted = SubSeq(tables, 1, index - 1)
    /\ \A a, b \in 1..Len(tables) :
          a < b => CatalogPos(tables[a]) < CatalogPos(tables[b])
    /\ orch.end = "completed" => orch.attempted = tables

C13_Witness ==
    /\ orch.end = "completed"
    /\ Len(tables) >= 2
    /\ tables[1] \in orch.failed
    /\ orch.attempted = tables

\* C14 as stated: a run whose connecting failed, or whose catalog
\* enumeration raised, has reconciled, truncated or transferred no table.
C14_RunFatal ==
    (orch.end = "connect_failed" \/ orch.raised) => orch.touched = {}

\* C15: no line of the ignore file is ever removed and the registry in
\* memory only grows; every identifier registered by hand before the run,
\* by --ignore-table or by a failure is in the registry in memory and in
\* the file, in this run and in the later ones, and is not among the
\* tables the loop of run_sync has still to process.
C15_IgnoreIdempotence ==
    /\ [](program = "sync" =>
            /\ orch.registered \subseteq ignored_tables
            /\ orch.registered \subseteq FileNames
            /\ pc = "r_loop" =>
                  \A n \in index..Len(tables) : tables[n] \notin orch.registered)
    /\ [][/\ Len(ignoreFile') >= Len(ignoreFile)
          /\ \A n \in 1..Len(ignoreFile) : ignoreFile'[n] = ignoreFile[n]
          /\ program = "sync" => ignored_tables \subseteq ignored_tables'
          /\ program = "sync" => orch.registered \subseteq orch'.registered]_vars

C15_Witness ==
    /\ program = "sync" /\ runs >= 2 /\ pc = "r_loop"
    /\ "cust" \in orch.inherited
    /\ \E n \in 1..Len(ignoreFile) : ignoreFile[n] = "cust"
    /\ tables = <<"ord">>

\* C16 as stated: no table is reconciled or transferred in a run after its
\* identifier entered the ignore file during that run, the candidate list
\* being already made.
C16_ConsultedBeforeEach == orch.ignoredTouched = {}

\* The column names of a table, lower-cased.
LowerNames(table) == {Lower(column.name) : column \in table}

\* C17: when ensure_target_table has returned True for the descriptor, the
\* destination table exists and its column names, lower-cased, include the
\* descriptor's, whether the table was absent, complete or lacked columns.
C17_ReconcilePostcondition ==
    (pc = "idle" /\ ensured = "true" /\ ~ ddl.stale) =>
        /\ destExists
        /\ {Lower(column) : column \in columns} \subseteq LowerNames(destColumns)

C17_Witness ==
    /\ pc = "idle" /\ ensured = "true" /\ ~ ddl.stale
    /\ ddl.startExists /\ ddl.adds >= 2
    /\ [name |-> "Name", type |-> "TEXT"] \in destColumns

\* C18: no step removes a column of the destination table or changes its
\* name or type, and the table, once there, stays; the committed column
\* set only grows.
C18_AdditiveOnly ==
    [][/\ destColumns \subseteq destColumns'
       /\ destExists => destExists']_vars

C18_Witness ==
    /\ pc = "idle" /\ ensured = "true" /\ ddl.adds >= 1
    /\ [name |-> "id", type |-> "INTEGER"] \in destColumns
    /\ [name |-> "Name", type |-> "TEXT"] \in destColumns
    /\ "name" \in columns /\ "qty" \in columns

\* C19: in a call of ensure_target_table that follows a successful call
\* with the same descriptor, no CREATE TABLE and no ADD COLUMN is executed
\* and the destination schema stays as it was.
C19_ReconcileIdempotent ==
    ddl.again =>
        /\ ddl.creates = 0 /\ ddl.adds = 0
        /\ txnColumns = {}
        /\ destColumns = ddl.startColumns
        /\ destExists

C19_Witness ==
    /\ ddl.again /\ pc = "idle" /\ ensured = "true"
    /\ Cardinality(destColumns) >= 3

\* C20 as stated: when an ADD COLUMN of a call fails after others of the
\* same call succeeded, the call returns False and the columns added by
\* the statements that succeeded are in the destination table.
C20_PartialEvolutionSurvives ==
    (pc = "idle" /\ ensured = "false") =>
        ddl.succeeded \subseteq destColumns

\* C21: every batch a transfer loop hands to the destination writer
\* (sync_full_table, sync_key_based, the fetch loop of the mirror variant)
\* has between 1 and batch_size rows, and a batch shorter than batch_size is
\* the last of the table: nothing is left to fetch after it.  A full-sync
\* batch adds exactly that many rows to the destination.
C21_BatchBound ==
    [][/\ (pc \in {"full_loop", "key_loop", "key_retry"} /\ cursor' # cursor
              /\ pc' \in {"full_loop", "key_loop"}) =>
             LET n == rows_synced' - rows_synced
             IN /\ n \in 1..BatchSize
                /\ n < BatchSize => cursor' = << >>
                /\ n = Len(cursor) - Len(cursor')
                /\ pc = "full_loop" =>
                      BagCardinality(dest') = BagCardinality(dest) + n
       /\ (pc = "m_loop" /\ pc' = pc) =>
             LET n == total_rows' - total_rows
             IN /\ n \in 1..BatchSize
                /\ n < BatchSize => cursor' = << >>
                /\ n = Len(cursor) - Len(cursor')
                /\ dest' # dest =>
                      BagCardinality(dest') = BagCardinality(dest) + n]_vars

C21_Witness ==
    /\ pc \in {"full_loop", "key_loop"}
    /\ run.batches = 2
    /\ rows_synced = BatchSize + 1
    /\ cursor = << >>

\* C22 as stated: when the full strategy has run on a source table without
\* rows and returned, it did not truncate the destination table, it
\* returned 0 and the SyncState record of the table is as it was before
\* the run; in the mirror variant mirror_table reports success, truncates
\* nothing, changes no row and the table is not in the ignore file.
C22_ZeroRowTable ==
    /\ (Returned /\ run.path = "full" /\ Len(src) = 0) =>
          /\ ~ run.truncated
          /\ dest = run.startDest
          /\ ret = IntV(0)
          /\ syncState = run.startState
    /\ (pc = "idle" /\ success = "true" /\ Len(src) = 0) =>
          /\ ~ mirror.truncated
          /\ dest = mirror.startDest
          /\ TableName \notin ReadIgnoreFile

\* Destination contents with up to two rows for each key, for the fallback
\* applied to tables that hold a key of the chunk once or several times.
DupTables == [StaleRows -> 0..2]
BagOf(counts) ==
    [r \in {q \in DOMAIN counts : counts[q] > 0} |-> counts[r]]
\* After the fallback of chunk batch, table holds for every key of the chunk
\* exactly one row, the chunk's.
OnlyChunkRows(table, batch) ==
    \A i \in 1..Len(batch) :
        /\ RowsWithKey(table, Transform(batch[i].key)) = 1
        /\ BagIn(ProcessRow(batch[i]), table)

InIgnoreRegistry == ignoreFile # << >> \/ ignored_tables # {}

\* C24 as stated: a chunk whose upsert failed is tried once more, as
\* delete-then-insert, and then either is committed or ends the table's
\* processing; when the retry fails no further chunk is attempted,
\* sync_table returns 0 as a failed table does, and the table is in the
\* Ignore Registry when control is back in the loop over the tables.
C24_RetryEscalation ==
    [][/\ pc = "key_retry" => pc' \in {"key_loop", "idle"}
       /\ (pc = "key_retry" /\ pc' = "idle" /\ run'.retryFailed) =>
             /\ ret' = IntV(0)
             /\ run'.batches = run.batches
             /\ InIgnoreRegistry']_vars

\* C25: the DELETE and the INSERT of the fallback are one transaction: the
\* executed DELETE changes nothing that is committed, and when the retry
\* fails after it the destination is as it was before the chunk; the rows
\* of the chunk's keys that it held are still there.
C25_FallbackAtomic ==
    /\ [][(pc = "key_loop" /\ pc' = "key_retry") => dest' = dest]_vars
    /\ [][(pc = "key_retry" /\ pc' = "idle") => dest' = dest]_vars
    /\ [](run.retryFailed /\ run.batches = 0 => dest = run.startDest)

C25_Witness ==
    /\ pc = "idle" /\ run.retryFailed
    /\ run.batches = 0
    /\ \E i \in 1..Len(src) :
          /\ KeyAfter(src[i], run.watermark)
          /\ RowsWithKey(dest, Transform(src[i].key)) >= 1

\* The transformed rows of the first n rows of the source.
FirstRows(n) == SeqToBag(ProcessBatch(SubSeq(src, 1, Min(n, Len(src)))))

\* C26: every chunk of a transfer is committed by itself.  While a full
\* sync is in its loop the destination holds exactly the rows of the chunks
\* written so far; the step in which a write fails changes nothing in the
\* destination, so after a failure in chunk k the destination holds the
\* rows of the chunks 1..k-1 and no row of chunk k.  In the mirror variant
\* a chunk whose insert_data fails leaves the destination as it was.
C26_ChunksIndependent ==
    /\ [](pc = "full_loop" => dest = FirstRows(rows_synced))
    /\ []((pc = "idle" /\ run.path = "full" /\ run.truncated
             /\ run.outcome = "error" /\ ~ srcChanged) =>
            dest = FirstRows(run.batches * BatchSize))
    /\ [][(pc = "full_loop" /\ pc' = "idle" /\ run'.outcome = "error") =>
             dest' = dest]_vars
    /\ [][(pc = "m_loop" /\ mirror'.lost # mirror.lost) => dest' = dest]_vars

C26_Witness ==
    /\ pc = "idle" /\ run.path = "full" /\ run.outcome = "error"
    /\ run.batches = 1 /\ Len(src) > BatchSize /\ ~ srcChanged
    /\ BagCardinality(dest) = BatchSize
    /\ BagCardinality(run.startDest) = 1

\* C27: sync_key_based hands over to sync_full_table when the table has
\* no primary key column and when get_last_sync gave no record or a record
\* without last_key_value, and issues the query "id" > watermark only when
\* it has both a primary key column and a watermark; a run that was handed
\* over truncates, reloads all rows and saves the record a full sync
\* saves.
C27_KeyBasedFallbacks ==
    /\ [][(pc = "key" /\ pc' # "idle") =>
             LET key_value == IF last_sync' # NULL
                              THEN last_sync'.last_key_value ELSE NULL
             IN IF Truthy(pk_column) /\ Truthy(key_value)
                THEN /\ pc' = "key_loop"
                     /\ cursor' = KeyQuery(src, key_value)
                     /\ dest' = dest
                ELSE /\ pc' = "full"
                     /\ dest' = dest]_vars
    /\ [](\A pk \in {NULL, TextV(""), TextV("id")} :
             \A key_value \in {NULL, TextV(""), TextV("1")} :
                KeyBasedPath(pk, key_value) =
                    IF pk = TextV("id") /\ key_value = TextV("1")
                    THEN "key_loop" ELSE "full")
    /\ [](run.path = "key" => (hasPk /\ Truthy(run.watermark)))
    /\ []((Returned /\ run.strategy = "key_based" /\ run.path = "full") =>
             /\ run.truncated
             /\ ~ srcChanged => dest = SeqToBag(ProcessBatch(src))
             /\ run.saved = "yes" =>
                   syncState = FullSyncState(pk_column,
                                   LastPk(src, NULL), ret.v)
                   \/ srcChanged)

C27_Witness ==
    /\ Returned /\ run.strategy = "key_based" /\ run.path = "full"
    /\ run.startState # NULL
    /\ run.saved = "yes" /\ ret.v >= 1 /\ ~ srcChanged
    /\ BagCardinality(run.startDest) >= 1

\* C28: for a table without primary key column the first run uses the
\* full strategy, and every later run that is not forced to "full" and
\* finds the table's SyncState record selects "timestamp", never
\* "key_based"; a timestamp run does what a full run does: it truncates,
\* reloads all rows and saves row_count = rows transferred, with method
\* "timestamp" and no key value.
C28_TimestampStub ==
    /\ [](~ hasPk => (run.strategy # "key_based" /\ run.path # "key"))
    /\ []((~ hasPk /\ runs = 1 /\ run.strategy # "none") =>
             run.strategy = "full")
    /\ [][(pc = "select" /\ pc' # "idle" /\ ~ hasPk /\ ~ full_sync) =>
             strategy' = IF last_sync' = NULL THEN "full" ELSE "timestamp"]_vars
    /\ [][(pc = "select" /\ strategy' = "timestamp") => pc' = "full"]_vars
    /\ []((Returned /\ run.strategy = "timestamp") =>
             /\ run.path = "full" /\ run.truncated
             /\ ~ srcChanged =>
                   (dest = SeqToBag(ProcessBatch(src)) /\ ret.v = Len(src))
             /\ run.saved = "yes" =>
                   syncState = UpdateSyncState(NULL, "timestamp", ret.v))

C28_Witness ==
    /\ Returned /\ run.strategy = "timestamp" /\ run.saved = "yes"
    /\ prev.path = "full" /\ prev.outcome = "ok"
    /\ runs = 2 /\ ret.v >= 2 /\ ~ srcChanged
    /\ run.startState # NULL /\ run.startState.row_count < ret.v

\* C29: a run that is not forced to "full" on a table with a primary key
\* column and a stored record selects key_based; when no source row has a
\* key greater than the stored watermark the key_based run writes no
\* batch, returns 0, leaves the destination as it was and does not rewrite
\* the SyncState record, so last_key_value and row_count are unchanged.
C29_NoChangeRun ==
    /\ [][(pc = "select" /\ pc' # "idle" /\ ~ full_sync /\ hasPk
             /\ last_sync' # NULL) => strategy' = "key_based"]_vars
    /\ []((Returned /\ run.path = "key" /\ ~ srcChanged
             /\ \A i \in 1..Len(src) : ~ KeyAfter(src[i], run.watermark)) =>
             /\ ret = IntV(0)
             /\ run.batches = 0
             /\ dest = run.startDest
             /\ run.saved = "no"
             /\ syncState = run.startState
             /\ syncState.last_key_value = run.watermark)

C29_Witness ==
    /\ Returned /\ run.path = "key" /\ ~ srcChanged
    /\ \A i \in 1..Len(src) : ~ KeyAfter(src[i], run.watermark)
    /\ Len(src) >= 2
    /\ syncState.row_count = Len(src)
    /\ prev.path = "full" /\ prev.outcome = "ok"

Candidates == {tables[n] : n \in 1..Len(tables)}

\* C31: a table whose column introspection raised a permission error
\* during get_source_tables is in self.ignored_tables and in the ignore
\* file, and is not in the candidate list of the run; the enumeration goes
\* on, so the candidate list holds every table whose introspection
\* succeeded, also those that come after the refused one; and no later run
\* has in its candidate list a table that was in the ignore file when the
\* run started.
C31_PermissionDenied ==
    program = "sync" =>
        /\ \A table \in orch.denied :
              /\ table \in ignored_tables
              /\ table \in FileNames
              /\ table \notin Candidates
        /\ ((pc = "r_loop" \/ orch.end \in {"no_tables", "completed"})
               /\ ~ orch.raised) => Candidates = orch.ok
        /\ Candidates \cap orch.inherited = {}

C31_Witness ==
    /\ program = "sync" /\ pc = "r_loop" /\ runs = 1
    /\ orch.inherited = {}
    /\ orch.denied = {"cust"}
    /\ ignoreFile = <<"cust">>
    /\ tables = <<"ord">>

\* ------------------------------------------------ the cursor guard ---
\* The mirror variant (src/oe2pg.py) runs the body of each of its source
\* operations inside `with cursor_semaphore:`.  Here one process is followed
\* through mirror_all_tables at the granularity of entering and leaving
\* those blocks; what the operations do to the tables is left to SpecMirror.

\* The guarded operations: get_tables, get_columns, get_row_count called by
\* mirror_table, get_row_count called by fetch_and_process_data, and the
\* transfer loop of fetch_and_process_data.
GuardedOps ==
    {"get_tables", "get_columns", "get_row_count", "fetch_row_count", "fetch"}

\* The process is about to enter, or is inside, the `with` block of op.
Enter(op) == "enter_" \o op
Body(op) == "body_" \o op

\* How the body of a `with` block ends: it goes on ("ok"), it returns a
\* value that ends the table ("stop"), its except branch catches an error
\* ("caught"), or an error of its finally branch leaves the block
\* ("escaped").
Outcomes == {"ok", "stop", "caught", "escaped"}
Raised(outcome) == outcome \in {"caught", "escaped"}

\* Semaphore.acquire and Semaphore.release on the number of permits.
Acquire(permits) == permits - 1
\* A guard that would keep the permit of a body that raised.
ReleaseUnlessRaised(permits, raised) == IF raised THEN permits ELSE permits + 1
\* __exit__ of the `with` statement releases however the body ended.
Release(permits, raised) == permits + 1

\* The operation mirror_table runs after op went on, "" if there is none.
FollowingOp(op) ==
    CASE op = "get_columns" -> "get_row_count"
      [] op = "get_row_count" -> "fetch_row_count"
      [] op = "fetch_row_count" -> "fetch"
      [] OTHER -> ""

InitCursors ==
    /\ cursor_semaphore = MAX_CURSORS
    /\ holders = << >>
    /\ guard = NoGuard
    /\ runs = 0
    /\ pc = "idle"
    /\ src = << >>
    /\ hasPk = FALSE
    /\ destExists = FALSE
    /\ hasUnique = FALSE
    /\ dest = EmptyBag
    /\ syncState = NULL
    /\ full_sync = FALSE
    /\ strategy = "none"
    /\ last_sync = NULL
    /\ last_key_value = NULL
    /\ cursor = << >>
    /\ rows_synced = 0
    /\ last_value = NULL
    /\ ret = NULL
    /\ run = NoRun
    /\ prev = Summary(NoRun)
    /\ srcChanged = FALSE
    /\ ledger = 0
    /\ ignoreFile = << >>
    /\ total_rows = 0
    /\ success = "none"
    /\ mirror = NoMirror
    /\ OrchUnused
    /\ SchemaUnused

\* What the steps of the cursor guard leave alone.
cursorFrame ==
    <<src, hasPk, destExists, hasUnique, dest, syncState, full_sync, localVars,
      ret, run, prev, srcChanged, ledger, mirrorOnly, schemaOnly, program,
      connected, ignored_tables, results, orch>>

\* A process starts: loading the module creates Semaphore(MAX_CURSORS), and
\* mirror_all_tables calls get_tables.
CursorsBegin ==
    /\ pc = "idle"
    /\ runs < MaxRuns
    /\ runs' = runs + 1
    /\ cursor_semaphore' = MAX_CURSORS
    /\ holders' = << >>
    /\ guard' = NoGuard
    /\ tables' = << >>
    /\ index' = 0
    /\ pc' = Enter("get_tables")
    /\ UNCHANGED cursorFrame

\* `with cursor_semaphore:` is entered: acquire takes a permit, and waits
\* as long as there is none.
CursorAcquire ==
    /\ \E op \in GuardedOps :
          /\ pc = Enter(op)
          /\ holders' = Append(holders, op)
          /\ pc' = Body(op)
    /\ cursor_semaphore > 0
    /\ cursor_semaphore' = Acquire(cursor_semaphore)
    /\ guard' = [guard EXCEPT !.acquired = @ + 1]
    /\ UNCHANGED <<runs, tables, index, cursorFrame>>

\* The body of get_tables ends and the block is left.  An error inside the
\* loop leaves the tables read so far; one that leaves the block reaches the
\* except branch of mirror_all_tables, which ends the run.
CursorReleaseTables ==
    \E outcome \in Outcomes \ {"stop"}, read \in 0..Len(Catalog) :
        /\ pc = Body("get_tables")
        /\ outcome = "ok" => read = Len(Catalog)
        /\ cursor_semaphore' = Release(cursor_semaphore, Raised(outcome))
        /\ holders' = SubSeq(holders, 1, Len(holders) - 1)
        /\ guard' = [guard EXCEPT !.exits = @ + 1,
                                  !.errors = @ + (IF Raised(outcome) THEN 1 ELSE 0)]
        /\ tables' = IF outcome = "escaped" THEN << >> ELSE GetTables(read)
        /\ index' = 1
        /\ pc' = IF tables' = << >> THEN "idle" ELSE Enter("get_columns")
        /\ UNCHANGED <<runs, cursorFrame>>

\* The body of an operation on the table at index ends and the block is
\* left; mirror_table goes on to its next operation, or returns and
\* mirror_all_tables takes the next table.
CursorReleaseTable ==
    \E op \in GuardedOps \ {"get_tables"}, outcome \in Outcomes :
        /\ pc = Body(op)
        /\ cursor_semaphore' = Release(cursor_semaphore, Raised(outcome))
        /\ holders' = SubSeq(holders, 1, Len(holders) - 1)
        /\ guard' = [guard EXCEPT !.exits = @ + 1,
                                  !.errors = @ + (IF Raised(outcome) THEN 1 ELSE 0)]
        /\ IF outcome = "ok" /\ FollowingOp(op) # ""
              THEN /\ pc' = Enter(FollowingOp(op))
                   /\ index' = index
              ELSE /\ pc' = IF index < Len(tables) THEN Enter("get_columns")
                                                   ELSE "idle"
                   /\ index' = index + 1
        /\ UNCHANGED <<runs, tables, cursorFrame>>

NextCursors ==
    \/ CursorsBegin
    \/ CursorAcquire
    \/ CursorReleaseTables
    \/ CursorReleaseTable

SpecCursors == InitCursors /\ [][NextCursors]_vars

\* Between two tables, and between two runs, of the mirror variant.
BetweenTables == pc \in {"idle", Enter("get_columns")}

\* C32: in the mirror variant the cursor guard never has more than
\* MAX_CURSORS holders; every permit taken is given back, also when the
\* operation ends by an error, so that no permit is missing between two
\* tables.
C32_BoundedCursors ==
    /\ Len(holders) <= MAX_CURSORS
    /\ cursor_semaphore \in 0..MAX_CURSORS
    /\ cursor_semaphore + Len(holders) = MAX_CURSORS
    /\ guard.acquired = guard.exits + Len(holders)
    /\ BetweenTables => (holders = << >> /\ cursor_semaphore = MAX_CURSORS)

\* An operation of the first table ended by an error and the second table
\* begins with all the permits.
C32_Witness ==
    /\ pc = Enter("get_columns")
    /\ index = 2
    /\ guard.errors >= 1
    /\ guard.acquired >= 2
    /\ cursor_semaphore = MAX_CURSORS

\* C33: with a source that only gains rows, after a full sync that returned
\* and saved its record, and after a key_based run that followed it and did
\* the same, the stored row_count is the number of rows the destination
\* holds, in whatever order the full sync read the source.
C33_RowCountMatches ==
    /\ (Saved /\ run.path = "full" /\ run.saved = "yes") =>
          syncState.row_count = BagCardinality(dest)
    /\ (Saved /\ run.path = "key" /\ run.saved = "yes"
           /\ prev.path = "full" /\ prev.outcome = "ok") =>
          syncState.row_count = BagCardinality(dest)

\* The destination holds a row for every row of the source.
DestinationComplete ==
    \A i \in 1..Len(src) : RowsWithKey(dest, Transform(src[i].key)) >= 1

\* Every row the source gained has a larger key than the rows before it,
\* and an unordered SELECT returns the rows in the order of their keys.
AscendingKeys ==
    \A i, j \in 1..Len(src) : i < j => src[i].key.v < src[j].key.v

\* C34: for a table with a primary key whose source only gains rows (of
\* ever larger keys), when the run before failed or was interrupted in
\* mid-transfer and this run has returned normally, the destination holds
\* a row for every row the source had when the run began.
C34_CompleteAfterRecovery ==
    (Returned /\ hasPk /\ ~ srcChanged /\ AscendingKeys /\ Interrupted(prev)) =>
        DestinationComplete

\* C35: when sync_full_table or sync_key_based has ended by an error (of
\* the source SELECT or fetch, of a destination write, of the retry after a
\* failed upsert), it has returned 0 and the SyncState record of the table
\* is the one the run found, absent if it was absent.
C35_StateUnchangedOnFailure ==
    (pc = "idle" /\ run.outcome = "error" /\ run.path \in {"full", "key"}) =>
        /\ ret = IntV(0)
        /\ syncState = run.startState

\* In a key_based run the retry after a failed upsert failed as well.
C35_Witness ==
    /\ pc = "idle" /\ run.outcome = "error" /\ run.path = "key"
    /\ run.retryFailed
    /\ run.startState # NULL /\ syncState = run.startState
    /\ ret = IntV(0)

\* C36: in the mirror variant, when mirror_table has returned True for a
\* table whose transfer it attempted (it truncated the destination), no
\* batch insert failed, the destination has as many rows as the source, and
\* the total it reports is the number of rows inserted.
C36_SuccessMeansComplete ==
    (pc = "idle" /\ success = "true" /\ mirror.truncated) =>
        /\ mirror.lost = 0
        /\ total_rows = mirror.inserted
        /\ ~ mirror.srcChanged => BagCardinality(dest) = Len(src)

\* The names the run of the mirror variant has appended to the ignore file.
Written == {orch.written[n] : n \in 1..Len(orch.written)}

\* C37: within one run of the mirror variant, a table whose entry in the
\* results is False is in the ignore file, added by the run unless an
\* operator had put it there since the run began; a table the run added to
\* the ignore file has the entry False, never True; and the run wrote no
\* table twice.
C37_OutcomeConsistency ==
    program = "mirror" =>
        /\ \A name \in DOMAIN results :
              ~ results[name] =>
                  \/ name \in Written
                  \/ name \in ReadIgnoreFile \ orch.inherited
        /\ \A name \in Written :
              name \in DOMAIN results /\ ~ results[name]
        /\ \A i, j \in 1..Len(orch.written) :
              orch.written[i] = orch.written[j] => i = j

====
